---------------------------- MODULE Spec2Model ----------------------------
(***************************************************************************)
(* A model of clap-version-flag (src/src/lib.rs, src/src/error.rs).        *)
(*                                                                         *)
(* A Rust string is modelled as a sequence of characters; a character is   *)
(* a one-character TLA+ string, except the two non-ASCII characters        *)
(* "U+00E9" (2 bytes in UTF-8) and "U+20AC" (3 bytes).  str::len and the   *)
(* range indexing &hex[i..j] count BYTES, as they do in Rust, and          *)
(* indexing off a character boundary panics.                               *)
(***************************************************************************)
EXTENDS Integers, Sequences, FiniteSets, TLC

VARIABLES pc, hex_in, rgb_in, hex_out, banner, last, stdout, stderr, exit_code

vars == <<pc, hex_in, rgb_in, hex_out, banner, last, stdout, stderr, exit_code>>

-----------------------------------------------------------------------------
(* Bounds of the model. *)

\* Longest body (after the '#' prefix) drawn from RichChars.
MaxShortLen == 3

\* Longest body (after the '#' prefix) drawn from CoreChars.
MaxLongLen == 7

\* Longest package name, version and author drawn from TextChars.
MaxTextLen == 1

\* Most arguments on a command line.
MaxArgs == 2

-----------------------------------------------------------------------------
(* Strings and UTF-8. *)

\* char::len_utf8 of the characters the model uses.
Utf8Len(c) == IF c = "U+00E9" THEN 2 ELSE IF c = "U+20AC" THEN 3 ELSE 1

\* str::len: the length in bytes.
RECURSIVE StrLen(_)
StrLen(s) == IF s = <<>> THEN 0 ELSE Utf8Len(Head(s)) + StrLen(Tail(s))

\* The number of characters of s that end at or before byte offset i, or
\* -1 when i is no character boundary of s (str::is_char_boundary fails:
\* the offset is inside a character or past the end).
RECURSIVE CharsBefore(_, _)
CharsBefore(s, i) ==
    IF i = 0 THEN 0
    ELSE IF s = <<>> \/ Utf8Len(Head(s)) > i THEN -1
    ELSE LET rest == CharsBefore(Tail(s), i - Utf8Len(Head(s)))
         IN  IF rest < 0 THEN -1 ELSE rest + 1

\* Whether &s[i..j] returns (it panics otherwise).
SliceOk(s, i, j) ==
    /\ i <= j
    /\ CharsBefore(s, i) >= 0
    /\ CharsBefore(s, j) >= 0

\* &s[i..j] where SliceOk(s, i, j): the characters between the two offsets.
Slice(s, i, j) == SubSeq(s, CharsBefore(s, i) + 1, CharsBefore(s, j))

\* str::repeat(2).
Repeat2(s) == s \o s

\* str::trim_start_matches(c): every leading occurrence of c is removed.
RECURSIVE TrimStartMatches(_, _)
TrimStartMatches(s, c) ==
    IF s # <<>> /\ Head(s) = c THEN TrimStartMatches(Tail(s), c) ELSE s

\* Whether needle occurs in hay (str::contains).
Contains(hay, needle) ==
    \E i \in 0..(Len(hay) - Len(needle)) :
        SubSeq(hay, i + 1, i + Len(needle)) = needle

-----------------------------------------------------------------------------
(* Results: Ok(value), Err(error), or a panic that unwinds out of the call. *)

\* The error slot of a result that carries no error.
NoError == [kind |-> "None", text |-> <<>>]

Ok(v) == [tag |-> "Ok", value |-> v, err |-> NoError]
Err(e) == [tag |-> "Err", value |-> <<>>, err |-> e]
Panic == [tag |-> "Panic", value |-> <<>>, err |-> NoError]

\* A panic raised with a message of its own.
PanicWith(message) ==
    [tag |-> "Panic", value |-> <<>>,
     err |-> [kind |-> "panic", text |-> message]]

\* Result<u8, ParseIntError>.
IntOk(n) == [tag |-> "Ok", value |-> n, err |-> "None"]
IntErr(kind) == [tag |-> "Err", value |-> 0, err |-> kind]

-----------------------------------------------------------------------------
(* u8::from_str_radix(src, 16), as lib.rs calls it on each colour group. *)

\* A to_digit that knows the upper-case letters only; C8 tells it from
\* ToDigit.
ToDigitUpperOnly(c) ==
    CASE c = "0" -> 0 [] c = "1" -> 1 [] c = "2" -> 2 [] c = "3" -> 3
      [] c = "4" -> 4 [] c = "5" -> 5 [] c = "6" -> 6 [] c = "7" -> 7
      [] c = "8" -> 8 [] c = "9" -> 9
      [] c = "A" -> 10 [] c = "B" -> 11 [] c = "C" -> 12
      [] c = "D" -> 13 [] c = "E" -> 14 [] c = "F" -> 15
      [] OTHER -> -1

\* char::to_digit(16): the digit's value, or -1 for a character that is none.
ToDigit(c) ==
    CASE c = "0" -> 0 [] c = "1" -> 1 [] c = "2" -> 2 [] c = "3" -> 3
      [] c = "4" -> 4 [] c = "5" -> 5 [] c = "6" -> 6 [] c = "7" -> 7
      [] c = "8" -> 8 [] c = "9" -> 9
      [] c = "a" -> 10 [] c = "b" -> 11 [] c = "c" -> 12
      [] c = "d" -> 13 [] c = "e" -> 14 [] c = "f" -> 15
      [] c = "A" -> 10 [] c = "B" -> 11 [] c = "C" -> 12
      [] c = "D" -> 13 [] c = "E" -> 14 [] c = "F" -> 15
      [] OTHER -> -1

\* The digits read in radix 10 instead of 16; C7 tells it from DigitsValue.
RECURSIVE DigitsValueRadix10(_, _)
DigitsValueRadix10(digits, acc) ==
    IF digits = <<>> THEN IntOk(acc)
    ELSE LET d == ToDigit(Head(digits))
         IN  IF d < 0 THEN IntErr("InvalidDigit")
             ELSE IF acc * 10 + d > 255 THEN IntErr("PosOverflow")
             ELSE DigitsValueRadix10(Tail(digits), acc * 10 + d)

\* The loop of from_str_radix over the digits, most significant first: a
\* character that is no digit of the radix is an error, and so is a value
\* that does not fit 8 bits.
RECURSIVE DigitsValue(_, _)
DigitsValue(digits, acc) ==
    IF digits = <<>> THEN IntOk(acc)
    ELSE LET d == ToDigit(Head(digits))
         IN  IF d < 0 THEN IntErr("InvalidDigit")
             ELSE IF acc * 16 + d > 255 THEN IntErr("PosOverflow")
             ELSE DigitsValue(Tail(digits), acc * 16 + d)

\* An empty string is an error; one leading '+' is accepted as a sign (u8 is
\* unsigned, so '-' is no sign); a lone sign is an error; the rest are the
\* digits.
FromStrRadix16(src) ==
    IF src = <<>> THEN IntErr("Empty")
    ELSE IF Len(src) = 1 /\ Head(src) \in {"+", "-"} THEN IntErr("InvalidDigit")
    ELSE DigitsValue(IF Head(src) = "+" THEN Tail(src) ELSE src, 0)

-----------------------------------------------------------------------------
(* error.rs: VersionError. *)

\* VersionError::invalid_hex(color).
InvalidHex(color) == [kind |-> "InvalidHexColor", text |-> color]

MsgInvalid == <<"I","n","v","a","l","i","d"," ","h","e","x"," ","c","o","l","o","r"," ","f","o","r","m","a","t">>
MsgExpected == <<"E","x","p","e","c","t","e","d"," ","f","o","r","m","a","t">>
MsgFormats == <<":"," ","#","R","R","G","G","B","B"," ","o","r"," ","#","R","G","B">>

\* Display of InvalidHexColor(text):
\* "Invalid hex color format: '{0}'. Expected format: #RRGGBB or #RGB".
ErrorMessage(e) ==
    MsgInvalid \o <<":", " ", "'">> \o e.text \o <<"'", ".", " ">>
        \o MsgExpected \o MsgFormats

-----------------------------------------------------------------------------
(* lib.rs: parse_hex. *)

\* A group whose error carries the offending group alone instead of the
\* whole string; C6 tells it from ParseGroup.
ParseGroupErrPiece(hex, i, j, doubled) ==
    IF ~SliceOk(hex, i, j) THEN Panic
    ELSE LET piece == Slice(hex, i, j)
             r == FromStrRadix16(IF doubled THEN Repeat2(piece) ELSE piece)
         IN  IF r.tag = "Ok" THEN Ok(r.value) ELSE Err(InvalidHex(piece))

\* One colour group: &hex[i..j] (which panics off a character boundary),
\* repeated twice in the 3-digit form, through u8::from_str_radix; a parse
\* error is mapped to invalid_hex(hex).
ParseGroup(hex, i, j, doubled) ==
    IF ~SliceOk(hex, i, j) THEN Panic
    ELSE LET piece == Slice(hex, i, j)
             r == FromStrRadix16(IF doubled THEN Repeat2(piece) ELSE piece)
         IN  IF r.tag = "Ok" THEN Ok(r.value) ELSE Err(InvalidHex(hex))

\* The three groups in turn; `?` returns at the first error, and a panic
\* unwinds at once.
ParseGroups(hex, width, doubled) ==
    LET r == ParseGroup(hex, 0, width, doubled)
    IN  IF r.tag # "Ok" THEN r
        ELSE LET g == ParseGroup(hex, width, 2 * width, doubled)
             IN  IF g.tag # "Ok" THEN g
                 ELSE LET b == ParseGroup(hex, 2 * width, 3 * width, doubled)
                      IN  IF b.tag # "Ok" THEN b
                          ELSE Ok(<<r.value, g.value, b.value>>)

\* The 6-digit arm with the groups taken as blue, green, red; C2 tells it
\* from ParseHex6.
ParseHex6Bgr(hex) ==
    LET p == ParseGroups(hex, 2, FALSE)
    IN  IF p.tag = "Ok" THEN Ok(<<p.value[3], p.value[2], p.value[1]>>) ELSE p

\* The arm `6 =>`.
ParseHex6(hex) == ParseGroups(hex, 2, FALSE)

\* The 3-digit arm without the doubling of each digit; C3 tells it from
\* ParseHex3.
ParseHex3NoRepeat(hex) == ParseGroups(hex, 1, FALSE)

\* The arm `3 =>`: #RGB is expanded to #RRGGBB.
ParseHex3(hex) == ParseGroups(hex, 1, TRUE)

\* parse_hex(hex).
ParseHex(arg) ==
    LET hex == TrimStartMatches(arg, "#")
        len == StrLen(hex)
    IN  CASE len = 6 -> ParseHex6(hex)
          [] len = 3 -> ParseHex3(hex)
          [] OTHER -> Err(InvalidHex(hex))

-----------------------------------------------------------------------------
(* lib.rs: Colors, ColorfulVersion. *)

\* The defaults with the name background's red and blue exchanged; C13 tells
\* it from DefaultColors.
DefaultColorsBgReversed ==
    [name_fg |-> <<255, 255, 255>>,
     name_bg |-> <<255, 0, 170>>,
     version_color |-> <<255, 255, 0>>,
     author_color |-> <<0, 255, 255>>]

\* impl Default for Colors.
DefaultColors ==
    [name_fg |-> <<255, 255, 255>>,
     name_bg |-> <<170, 0, 255>>,
     version_color |-> <<255, 255, 0>>,
     author_color |-> <<0, 255, 255>>]

\* ColorfulVersion::new.
New(package_name, version, author) ==
    [package_name |-> package_name,
     version |-> version,
     author |-> author,
     colors |-> DefaultColors]

\* The accessors package_name(), version() and author().
PackageName(self) == self.package_name
Version(self) == self.version
Author(self) == self.author

\* A line that skips a colour that does not parse and goes on; C9 tells it
\* from AssignParsed.
AssignParsedLenient(self, field, parsed) ==
    IF parsed.tag # "Ok" THEN Ok(<<self>>)
    ELSE Ok(<<[self EXCEPT !.colors[field] = parsed.value]>>)

\* One line of with_hex_colors, `self.colors.<field> = parse_hex(arg)?;`,
\* given what parse_hex returned: the field is assigned, or `?` returns the
\* error (and a panic unwinds); self, a local of the call, is then dropped
\* with whatever fields were assigned before.
AssignParsed(self, field, parsed) ==
    IF parsed.tag # "Ok" THEN parsed
    ELSE Ok(<<[self EXCEPT !.colors[field] = parsed.value]>>)

\* Every line assigning to name_fg; C11 tells it from AssignColor.
AssignColorNameFg(sofar, field, arg) ==
    IF sofar.tag # "Ok" THEN sofar
    ELSE AssignParsed(sofar.value[1], "name_fg", ParseHex(arg))

\* The line is run only if the call has not returned before it.
AssignColor(sofar, field, arg) ==
    IF sofar.tag # "Ok" THEN sofar
    ELSE AssignParsed(sofar.value[1], field, ParseHex(arg))

\* The four lines in the opposite order, author first; C10 tells it from
\* WithHexColors.
WithHexColorsAuthorFirst(self, name_fg, name_bg, version, author) ==
    AssignColor(
        AssignColor(
            AssignColor(
                AssignColor(Ok(<<self>>), "author_color", author),
                "version_color", version),
            "name_bg", name_bg),
        "name_fg", name_fg)

\* ColorfulVersion::with_hex_colors(mut self, ..): the four lines in turn.
\* Ok carries the banner as a one-element sequence.
WithHexColors(self, name_fg, name_bg, version, author) ==
    AssignColor(
        AssignColor(
            AssignColor(
                AssignColor(Ok(<<self>>), "name_fg", name_fg),
                "name_bg", name_bg),
            "version_color", version),
        "author_color", author)

\* An override that leaves the author colour as it was; C29 tells it from
\* WithRgbColors.
WithRgbColorsKeepsAuthor(self, name_fg, name_bg, version, author) ==
    [self EXCEPT !.colors = [name_fg |-> name_fg,
                             name_bg |-> name_bg,
                             version_color |-> version,
                             author_color |-> self.colors.author_color]]

\* The version and author colours exchanged; C12 tells it from
\* WithRgbColors.
WithRgbColorsSwapped(self, name_fg, name_bg, version, author) ==
    [self EXCEPT !.colors = [name_fg |-> name_fg,
                             name_bg |-> name_bg,
                             version_color |-> author,
                             author_color |-> version]]

\* ColorfulVersion::with_rgb_colors(mut self, ..).
WithRgbColors(self, name_fg, name_bg, version, author) ==
    [self EXCEPT !.colors = [name_fg |-> name_fg,
                             name_bg |-> name_bg,
                             version_color |-> version,
                             author_color |-> author]]

-----------------------------------------------------------------------------
(* lib.rs: the renderings.  The escape character (code point 27) is the    *)
(* character "ESC".  The styled strings are those of the `colored` crate:  *)
(* truecolor and on_truecolor record a 24-bit foreground and background,   *)
(* and formatting the styled string writes `ESC[<style>m`, the text and    *)
(* the reset `ESC[0m` when colour output is enabled (colorize), the bare   *)
(* text when it is not.                                                    *)

\* The layout with a second space before the version; C14 tells it from
\* AsPlainString.
AsPlainStringWide(self) ==
    self.package_name \o <<" ", " ", "v">> \o self.version
        \o <<" ", "b", "y", " ">> \o self.author

\* ColorfulVersion::as_plain_string: format!("{} v{} by {}", ..).
AsPlainString(self) ==
    self.package_name \o <<" ", "v">> \o self.version
        \o <<" ", "b", "y", " ">> \o self.author

\* The layout followed by a reset sequence; C15 tells it from Display.
DisplayThenReset(self) ==
    self.package_name \o <<" ", "v">> \o self.version
        \o <<" ", "b", "y", " ">> \o self.author \o <<"ESC", "[", "0", "m">>

\* impl fmt::Display for ColorfulVersion: write!(f, "{} v{} by {}", ..).
Display(self) ==
    self.package_name \o <<" ", "v">> \o self.version
        \o <<" ", "b", "y", " ">> \o self.author

\* "\x1B[0m", the reset sequence.
ResetSeq == <<"ESC", "[", "0", "m">>

DecimalDigits == <<"0", "1", "2", "3", "4", "5", "6", "7", "8", "9">>

\* A u8 written by "{}".
ToDecimal(n) ==
    IF n < 10 THEN <<DecimalDigits[n + 1]>>
    ELSE IF n < 100
         THEN <<DecimalDigits[(n \div 10) + 1], DecimalDigits[(n % 10) + 1]>>
         ELSE <<DecimalDigits[(n \div 100) + 1],
                DecimalDigits[((n \div 10) % 10) + 1],
                DecimalDigits[(n % 10) + 1]>>

\* "r;g;b" of a colour.
ColorParams(rgb) ==
    ToDecimal(rgb[1]) \o <<";">> \o ToDecimal(rgb[2]) \o <<";">>
        \o ToDecimal(rgb[3])

\* The style parameters of a 24-bit foreground and of a 24-bit background.
ToFgStr(rgb) == <<"3", "8", ";", "2", ";">> \o ColorParams(rgb)
ToBgStr(rgb) == <<"4", "8", ";", "2", ";">> \o ColorParams(rgb)

\* text.truecolor(r, g, b): the text with a foreground colour.
Truecolor(text, rgb) == [input |-> text, fgcolor |-> <<rgb>>, bgcolor |-> <<>>]

\* styled.on_truecolor(r, g, b): a background colour added.
OnTruecolor(styled, rgb) == [styled EXCEPT !.bgcolor = <<rgb>>]

\* The sequence that switches the style on: the background, if any, before
\* the foreground.
ComputeStyle(styled) ==
    <<"ESC", "[">>
        \o (IF styled.bgcolor # <<>> THEN ToBgStr(styled.bgcolor[1]) ELSE <<>>)
        \o (IF styled.bgcolor # <<>> /\ styled.fgcolor # <<>>
            THEN <<";">> ELSE <<>>)
        \o (IF styled.fgcolor # <<>> THEN ToFgStr(styled.fgcolor[1]) ELSE <<>>)
        \o <<"m">>

\* s starts with prefix.
StartsWith(s, prefix) ==
    Len(s) >= Len(prefix) /\ SubSeq(s, 1, Len(prefix)) = prefix

\* The text with the style switched on again after every reset sequence
\* inside it.
RECURSIVE EscapeInnerResetSequences(_, _)
EscapeInnerResetSequences(input, style) ==
    IF input = <<>> THEN <<>>
    ELSE IF StartsWith(input, ResetSeq)
         THEN ResetSeq \o style
                  \o EscapeInnerResetSequences(
                         SubSeq(input, Len(ResetSeq) + 1, Len(input)), style)
         ELSE <<Head(input)>>
                  \o EscapeInnerResetSequences(Tail(input), style)

\* A styled string written by "{}".
ColoredFmt(styled, colorize) ==
    IF ~colorize \/ (styled.fgcolor = <<>> /\ styled.bgcolor = <<>>)
    THEN styled.input
    ELSE ComputeStyle(styled)
             \o EscapeInnerResetSequences(styled.input, ComputeStyle(styled))
             \o ResetSeq

\* The author segment left out; C17 tells it from ToColoredString.
ToColoredStringNoAuthor(self, colorize) ==
    ColoredFmt(OnTruecolor(Truecolor(self.package_name, self.colors.name_fg),
                           self.colors.name_bg), colorize)
        \o ColoredFmt(Truecolor(<<" ", "v">> \o self.version,
                                self.colors.version_color), colorize)

\* The author segment in the version's colour; C16 tells it from
\* ToColoredString.
ToColoredStringOneColor(self, colorize) ==
    ColoredFmt(OnTruecolor(Truecolor(self.package_name, self.colors.name_fg),
                           self.colors.name_bg), colorize)
        \o ColoredFmt(Truecolor(<<" ", "v">> \o self.version,
                                self.colors.version_color), colorize)
        \o ColoredFmt(Truecolor(<<" ", "b", "y", " ">> \o self.author,
                                self.colors.version_color), colorize)

\* ColorfulVersion::to_colored_string: format!("{}{}{}", ..) of the three
\* styled strings.
ToColoredString(self, colorize) ==
    ColoredFmt(OnTruecolor(Truecolor(self.package_name, self.colors.name_fg),
                           self.colors.name_bg), colorize)
        \o ColoredFmt(Truecolor(<<" ", "v">> \o self.version,
                                self.colors.version_color), colorize)
        \o ColoredFmt(Truecolor(<<" ", "b", "y", " ">> \o self.author,
                                self.colors.author_color), colorize)

\* The banner printed without the name's background; C18 tells it from
\* PrintLine.
PrintLineNoBackground(self, colorize) ==
    ColoredFmt(Truecolor(self.package_name, self.colors.name_fg), colorize)
        \o ColoredFmt(Truecolor(<<" ", "v">> \o self.version,
                                self.colors.version_color), colorize)
        \o ColoredFmt(Truecolor(<<" ", "b", "y", " ">> \o self.author,
                                self.colors.author_color), colorize)
        \o <<"\n">>

\* ColorfulVersion::print: what println!("{name}{version_text}{author_text}")
\* writes, the newline included.
PrintLine(self, colorize) ==
    LET name == OnTruecolor(Truecolor(self.package_name, self.colors.name_fg),
                            self.colors.name_bg)
        version_text == Truecolor(<<" ", "v">> \o self.version,
                                  self.colors.version_color)
        author_text == Truecolor(<<" ", "b", "y", " ">> \o self.author,
                                 self.colors.author_color)
    IN  ColoredFmt(name, colorize) \o ColoredFmt(version_text, colorize)
            \o ColoredFmt(author_text, colorize) \o <<"\n">>

\* What the panic of println! writes to the standard error stream.
PrintPanicMessage == "failed printing to stdout"

\* ColorfulVersion::print(&self) as a step: println! writes the line to the
\* standard output stream, or, when the stream does not take it (ok is
\* FALSE), panics.
PrintBanner(self, colorize, ok) ==
    IF ok
    THEN /\ stdout' = stdout \o PrintLine(self, colorize)
         /\ stderr' = stderr
    ELSE /\ stdout' = stdout
         /\ stderr' = stderr \o <<PrintPanicMessage>>

-----------------------------------------------------------------------------
(* lib.rs: the command-line parser (clap) as the library uses it.  A       *)
(* command has one positional argument, input, required or not, and the    *)
(* flags registered on it; a command line is a sequence of arguments;      *)
(* parsing gives the matches or an error.                                  *)

VersionFlagId == "clap_version_flag_version"

ClapError(kind) == [kind |-> kind, text |-> <<>>]

\* The flag's two spellings: .short('V') and .long("version").
IsVersionArgLongOnly(arg) == arg = "--version"
IsVersionArg(arg) == arg \in {"-V", "--version"}

\* with_colorful_version: the built-in version flag disabled and the flag
\* -V / --version registered with ArgAction::SetTrue and global(true).
WithColorfulVersionLocal(command, version) ==
    [command EXCEPT !.version_flag_disabled = TRUE,
                    !.flags = @ \cup {VersionFlagId}]
WithColorfulVersionKeepsBuiltin(command, version) ==
    [command EXCEPT !.flags = @ \cup {VersionFlagId},
                    !.globals = @ \cup {VersionFlagId}]
WithColorfulVersionDropsDefault(command, version) ==
    [command EXCEPT !.version_flag_disabled = TRUE,
                    !.flags = @ \cup {VersionFlagId},
                    !.globals = @ \cup {VersionFlagId},
                    !.input_default = <<>>]
WithColorfulVersion(command, version) ==
    [command EXCEPT !.version_flag_disabled = TRUE,
                    !.flags = @ \cup {VersionFlagId},
                    !.globals = @ \cup {VersionFlagId}]

\* Command::subcommand, as the callers add subcommands to a command.
Subcommand(command, name) ==
    [command EXCEPT !.subcommands = @ \cup {name}]

\* The matches a parse starts from: every flag defined on the command is
\* present and false.
NoMatches(command) ==
    [flag |-> FALSE, input |-> <<>>, ids |-> command.flags,
     subcommand |-> <<>>, above |-> FALSE]

\* Whether the version flag is defined where the parse stands: at the root
\* the command's own flags, inside a subcommand the global ones.
VersionFlagDefined(command, matches) ==
    IF matches.subcommand = <<>> THEN VersionFlagId \in command.flags
    ELSE VersionFlagId \in command.globals

\* Whether the parser's built-in version flag answers where the parse
\* stands: only at the root of a command that has a version.
BuiltinVersionActive(command, matches) ==
    /\ matches.subcommand = <<>>
    /\ command.has_version
    /\ ~command.version_flag_disabled

\* The arguments are taken in turn: a flag is set (an error if it is given
\* again at the same level), --help and an unknown option end the parse at
\* once, the name of a subcommand enters it, a value goes to the positional
\* argument of the root.  At the end the values of global flags given
\* inside the subcommand are those of the root as well.
RECURSIVE ParseArgs(_, _, _)
ParseArgs(command, argv, matches) ==
    IF argv = <<>>
    THEN Ok(<<[matches EXCEPT !.flag = matches.flag \/ matches.above,
                              !.above = FALSE]>>)
    ELSE IF IsVersionArg(Head(argv))
         THEN IF VersionFlagDefined(command, matches)
              THEN IF matches.flag THEN Err(ClapError("ArgumentConflict"))
                   ELSE ParseArgs(command, Tail(argv),
                                  [matches EXCEPT !.flag = TRUE])
              ELSE IF BuiltinVersionActive(command, matches)
                   THEN Err(ClapError("DisplayVersion"))
                   ELSE Err(ClapError("UnknownArgument"))
    ELSE IF Head(argv) \in {"-h", "--help"}
         THEN Err(ClapError("DisplayHelp"))
    ELSE IF Head(argv) = "--bogus"
         THEN Err(ClapError("UnknownArgument"))
    ELSE IF matches.subcommand = <<>> /\ Head(argv) \in command.subcommands
         THEN ParseArgs(command, Tail(argv),
                        [matches EXCEPT !.subcommand = <<Head(argv)>>,
                                        !.above = matches.flag,
                                        !.flag = FALSE])
    ELSE IF matches.subcommand # <<>> \/ matches.input # <<>>
         THEN Err(ClapError("UnknownArgument"))
         ELSE ParseArgs(command, Tail(argv),
                        [matches EXCEPT !.input = <<Head(argv)>>])

\* The positional argument after the parse: its default when none was given.
WithDefaults(command, matches) ==
    IF matches.input = <<>>
    THEN [matches EXCEPT !.input = command.input_default]
    ELSE matches

\* Command::try_get_matches_from: a command on which the built-in version
\* flag and a flag of the same spelling are both active is refused when it
\* is built (the parser's assertion that option names are unique);
\* otherwise the parse, then the defaults and the validation of the
\* required arguments.
TryGetMatches(command, argv) ==
    LET parsed == ParseArgs(command, argv, NoMatches(command))
    IN  IF /\ VersionFlagId \in command.flags
           /\ command.has_version /\ ~command.version_flag_disabled
        THEN Panic
        ELSE IF parsed.tag # "Ok" THEN parsed
        ELSE IF /\ command.input_required
                /\ WithDefaults(command, parsed.value[1]).input = <<>>
             THEN Err(ClapError("MissingRequiredArgument"))
             ELSE Ok(<<WithDefaults(command, parsed.value[1])>>)

\* ArgMatches::get_flag: the flag's value, a panic when no such flag is
\* defined on the command.
GetFlagAlwaysSet(matches, id) ==
    IF id \in matches.ids THEN Ok(<<TRUE>>) ELSE Panic
GetFlag(matches, id) ==
    IF id \in matches.ids THEN Ok(<<matches.flag>>) ELSE Panic

\* clap::Error::exit: help and version go to the standard output stream
\* with exit code 0, every other error to the standard error stream with
\* exit code 2.
UseStderr(e) == e.kind \notin {"DisplayHelp", "DisplayVersion"}
ErrorExitCode(e) == IF UseStderr(e) THEN 2 ELSE 0

\* T::from_arg_matches(&matches) of a T whose input field is required or
\* optional.
FromArgMatches(T, matches) ==
    IF T.input_required /\ matches.input = <<>>
    THEN Err(ClapError("MissingRequiredArgument"))
    ELSE Ok(<<[input |-> matches.input]>>)

-----------------------------------------------------------------------------
(* macros.rs. *)

\* colorful_version!(): the banner of the calling crate's CARGO_PKG_NAME,
\* CARGO_PKG_VERSION and CARGO_PKG_AUTHORS, given as pkg.
ColorfulVersionMacro(pkg) == New(pkg[1], pkg[2], pkg[3])

\* colorful_version_full!(name, version, author).
ColorfulVersionFullMacro(name, version, author) == New(name, version, author)

\* The crates of a build: the library, and an application that uses it.
\* CargoPkg is the CARGO_PKG_NAME, CARGO_PKG_VERSION and CARGO_PKG_AUTHORS
\* that cargo sets when it compiles the crate; the values stand for what
\* the two manifests give, and differ between the crates.
LibraryCrate == "clap-version-flag"
Crates == {LibraryCrate, "app"}
CargoPkg(crate) ==
    IF crate = LibraryCrate
    THEN << <<"c","l","a","p","-","v","e","r","s","i","o","n","-","f","l","a","g">>,
            <<"1", ".", "0", ".", "5">>,
            <<"H", "a", "d", "i">> >>
    ELSE << <<"a", "p", "p">>, <<"1", ".", "0">>, <<"M", "e">> >>

\* env!(..) in the body of a macro_rules macro: the macro is expanded in
\* the crate that invokes it, and env! reads the variables of that crate's
\* compilation.
EnvOfLibrary(caller) == CargoPkg(LibraryCrate)
EnvAt(caller) == CargoPkg(caller)

\* The message of the macro's panic:
\* "clap-version-flag: Invalid hex color format: {e}".
MacroPanicMessage(e) ==
    CargoPkg(LibraryCrate)[1] \o <<":", " ">> \o MsgInvalid \o <<":", " ">>
        \o ErrorMessage(e)

\* colorful_version!(name_fg, name_bg, version, author): new on the
\* package metadata, with_hex_colors, and a panic on its error.  A panic
\* inside with_hex_colors unwinds through the macro as it is.
ColorfulVersionHexMacro(pkg, name_fg, name_bg, version, author) ==
    LET made == WithHexColors(New(pkg[1], pkg[2], pkg[3]),
                              name_fg, name_bg, version, author)
    IN  IF made.tag = "Err" THEN PanicWith(MacroPanicMessage(made.err))
        ELSE made

\* colorful_version_rgb!(name_fg, name_bg, version, author).
ColorfulVersionRgbMacro(pkg, name_fg, name_bg, version, author) ==
    WithRgbColors(New(pkg[1], pkg[2], pkg[3]),
                  name_fg, name_bg, version, author)

-----------------------------------------------------------------------------
(* The inputs the model draws. *)

\* Characters of short inputs: digits, lower and upper case letters a-f, a
\* letter that is no digit, the signs, and the two multi-byte characters.
RichChars == {"0", "9", "a", "f", "A", "F", "G", "+", "-", "U+00E9", "U+20AC"}

\* Characters of long inputs.
CoreChars == {"a", "F", "G", "+"}

\* Every string of at most n characters of chars.
StringsUpTo(chars, n) == UNION {[1..k -> chars] : k \in 0..n}

\* Zero, one or two leading '#'.
HashPrefixes == {<<>>, <<"#">>, <<"#", "#">>}

\* The arguments given to parse_hex.
HexInputs ==
    {h \o b : h \in HashPrefixes,
              b \in StringsUpTo(RichChars, MaxShortLen)
                        \cup StringsUpTo(CoreChars, MaxLongLen)}

\* Channel values that are formatted and parsed back.
ChannelValues == {0, 9, 10, 16, 171, 255}

\* A byte triple and how it is written: upper or lower case, with or
\* without '#'.
FormatInputs ==
    [rgb : ChannelValues \X ChannelValues \X ChannelValues,
     upper : BOOLEAN, hash : BOOLEAN]

\* The digits that formatting in radix 16 writes, in lower and upper case.
LowerDigits == <<"0","1","2","3","4","5","6","7","8","9","a","b","c","d","e","f">>
UpperDigits == <<"0","1","2","3","4","5","6","7","8","9","A","B","C","D","E","F">>

\* {:02x} / {:02X} of one byte.
ByteToHex(n, upper) ==
    LET digits == IF upper THEN UpperDigits ELSE LowerDigits
    IN  <<digits[(n \div 16) + 1], digits[(n % 16) + 1]>>

\* The 6-digit form of a byte triple.
FormatHex(f) ==
    (IF f.hash THEN <<"#">> ELSE <<>>)
        \o ByteToHex(f.rgb[1], f.upper)
        \o ByteToHex(f.rgb[2], f.upper)
        \o ByteToHex(f.rgb[3], f.upper)

\* The hex arguments given to with_hex_colors: two that parse, two that
\* are rejected, one on which parse_hex panics.
HexArgs ==
    {<<"#", "F", "0", "0">>,
     <<"0", "a", "9", "B", "f", "3">>,
     <<"G", "G", "G">>,
     <<"#", "1", "2", "3", "4", "5">>,
     <<"a", "U+00E9">>}

\* The triples given to with_rgb_colors.
RgbArgs == {<<0, 0, 0>>, <<255, 128, 1>>}

\* The (package_name, version, author) given to new.
BannerTexts ==
    {<<<<"a", "p", "p">>, <<"1", ".", "0">>, <<"M", "e">>>>,
     <<<<>>, <<>>, <<>>>>}

\* Characters of the texts that are rendered: a letter, a space, the escape
\* character and a 2-byte character.
TextChars == {"a", " ", "ESC", "U+00E9"}

\* The texts that are rendered: the short ones, two ordinary ones and one
\* with a reset sequence inside.
RenderTexts ==
    StringsUpTo(TextChars, MaxTextLen)
        \cup {<<"a", "p", "p">>, <<"1", ".", "0">>,
              <<"a", "ESC", "[", "0", "m", "b">>}

\* The colours of the banners that are rendered, next to the defaults.
RenderColors ==
    [name_fg |-> <<1, 20, 255>>,
     name_bg |-> <<0, 0, 0>>,
     version_color |-> <<9, 10, 99>>,
     author_color |-> <<100, 7, 42>>]

\* The banners that are rendered: constructed, and with the colours
\* overridden.
RenderBanners ==
    LET made == {New(n, v, a) : n \in RenderTexts, v \in RenderTexts,
                                a \in RenderTexts}
    IN  made \cup {WithRgbColors(b, RenderColors.name_fg, RenderColors.name_bg,
                                 RenderColors.version_color,
                                 RenderColors.author_color) : b \in made}

\* The banners of the processes that print: the texts of BannerTexts in
\* the default and in overridden colours.
CliBanners ==
    LET made == {New(t[1], t[2], t[3]) : t \in BannerTexts}
    IN  made \cup {WithRgbColors(b, RenderColors.name_fg, RenderColors.name_bg,
                                 RenderColors.version_color,
                                 RenderColors.author_color) : b \in made}

\* The arguments of a command line, and the command lines.
CliArgs == {"-V", "--version", "--help", "--bogus", "file", "sub1"}
CommandLines == StringsUpTo(CliArgs, MaxArgs)

\* The commands a caller builds before it registers the flag: with or
\* without a required positional argument, a default for it, a version of
\* their own (which switches the parser's built-in version flag on) and a
\* subcommand.
SubcommandNames == {"sub1"}
ArgCommands ==
    [input_required : BOOLEAN, input_default : {<<>>, <<"dflt">>},
     has_version : BOOLEAN, version_flag_disabled : {FALSE}, flags : {{}},
     globals : {{}}, subcommands : SUBSET SubcommandNames]

\* The commands given to parse_with_version, and the types parsed into.
Commands ==
    [input_required : BOOLEAN, input_default : {<<>>}, has_version : {FALSE},
     version_flag_disabled : {FALSE}, flags : {{}}, globals : {{}},
     subcommands : {{}}]
Parsers == [input_required : BOOLEAN]

-----------------------------------------------------------------------------
(* The caller's state.                                                     *)
(*   banner   the ColorfulVersion the caller owns: <<b>>, or <<>> once it  *)
(*            was moved into a call that did not give one back             *)
(*   last     the call that has just returned (pc = "returned"): its       *)
(*            arguments, the banner it was made on and what it returned    *)
(*   hex_in, hex_out   the argument and the result of a parse_hex call     *)
(*   rgb_in   the byte triple hex_in was formatted from, if it was         *)
(*   stdout, stderr   what the process has written to the two streams      *)
(*   exit_code   <<c>> once the process has exited with code c             *)

NoCall == [op |-> "none", args |-> <<>>, cloned |-> FALSE, pre |-> <<>>,
           res |-> Ok(<<>>)]

\* The state after ColorfulVersion::new.
Init ==
    /\ pc = "main"
    /\ \E t \in BannerTexts : banner = <<New(t[1], t[2], t[3])>>
    /\ last = NoCall
    /\ hex_in = <<>>
    /\ rgb_in = <<>>
    /\ hex_out = <<>>
    /\ stdout = <<>>
    /\ stderr = <<>>
    /\ exit_code = <<>>

\* ColorfulVersion::new: the caller constructs a banner.
CallNew ==
    /\ pc = "main"
    /\ \E t \in BannerTexts :
        /\ banner' = <<New(t[1], t[2], t[3])>>
        /\ last' = [op |-> "new", args |-> t, cloned |-> FALSE, pre |-> banner,
                    res |-> Ok(banner')]
    /\ pc' = "returned"
    /\ UNCHANGED <<hex_in, rgb_in, hex_out, stdout, stderr, exit_code>>

\* colorful_version!() invoked in the crate caller: a banner of that
\* compilation's package metadata.  last.args ends with the caller.
CallColorfulVersion ==
    /\ pc = "main"
    /\ \E caller \in Crates :
        /\ banner' = <<ColorfulVersionMacro(EnvAt(caller))>>
        /\ last' = [op |-> "colorful_version!",
                    args |-> EnvAt(caller) \o <<caller>>, cloned |-> FALSE,
                    pre |-> banner, res |-> Ok(banner')]
    /\ pc' = "returned"
    /\ UNCHANGED <<hex_in, rgb_in, hex_out, stdout, stderr, exit_code>>

\* colorful_version!(name_fg, name_bg, version, author) invoked in the
\* crate caller: the banner, or a panic that unwinds the caller, whose
\* banner is dropped.
CallColorfulVersionHex ==
    /\ pc = "main"
    /\ \E caller \in Crates,
          a \in HexArgs, b \in HexArgs, c \in HexArgs, d \in HexArgs :
        /\ last' = [op |-> "colorful_version!(hex)",
                    args |-> <<a, b, c, d, caller>>, cloned |-> FALSE,
                    pre |-> <<>>,
                    res |-> ColorfulVersionHexMacro(EnvAt(caller), a, b, c, d)]
        /\ banner' = last'.res.value
        /\ pc' = IF last'.res.tag = "Ok" THEN "returned" ELSE "panicked"
    /\ UNCHANGED <<hex_in, rgb_in, hex_out, stdout, stderr, exit_code>>

\* colorful_version_rgb!(name_fg, name_bg, version, author) invoked in the
\* crate caller.
CallColorfulVersionRgb ==
    /\ pc = "main"
    /\ \E caller \in Crates,
          a \in RgbArgs, b \in RgbArgs, c \in RgbArgs, d \in RgbArgs :
        /\ banner' = <<ColorfulVersionRgbMacro(EnvAt(caller), a, b, c, d)>>
        /\ last' = [op |-> "colorful_version_rgb!",
                    args |-> <<a, b, c, d, caller>>, cloned |-> FALSE,
                    pre |-> <<>>, res |-> Ok(banner')]
    /\ pc' = "returned"
    /\ UNCHANGED <<hex_in, rgb_in, hex_out, stdout, stderr, exit_code>>

\* colorful_version_full!(name, version, author).
CallColorfulVersionFull ==
    /\ pc = "main"
    /\ \E t \in BannerTexts :
        /\ banner' = <<ColorfulVersionFullMacro(t[1], t[2], t[3])>>
        /\ last' = [op |-> "colorful_version_full!", args |-> t,
                    cloned |-> FALSE, pre |-> banner, res |-> Ok(banner')]
    /\ pc' = "returned"
    /\ UNCHANGED <<hex_in, rgb_in, hex_out, stdout, stderr, exit_code>>

\* with_hex_colors on the caller's banner, which is moved into the call, or
\* (cloned) on a clone of it, the caller keeping the original.  An Ok result
\* replaces the caller's banner.
CallWithHexColors ==
    /\ pc = "main"
    /\ banner # <<>>
    /\ \E a \in HexArgs, b \in HexArgs, c \in HexArgs, d \in HexArgs,
          cloned \in BOOLEAN :
        /\ last' = [op |-> "with_hex_colors", args |-> <<a, b, c, d>>,
                    cloned |-> cloned, pre |-> banner,
                    res |-> WithHexColors(banner[1], a, b, c, d)]
        /\ banner' = IF last'.res.tag = "Ok" THEN last'.res.value
                     ELSE IF cloned THEN banner ELSE <<>>
    /\ pc' = "returned"
    /\ UNCHANGED <<hex_in, rgb_in, hex_out, stdout, stderr, exit_code>>

\* with_rgb_colors on the caller's banner.
CallWithRgbColors ==
    /\ pc = "main"
    /\ banner # <<>>
    /\ \E a \in RgbArgs, b \in RgbArgs, c \in RgbArgs, d \in RgbArgs :
        /\ banner' = <<WithRgbColors(banner[1], a, b, c, d)>>
        /\ last' = [op |-> "with_rgb_colors", args |-> <<a, b, c, d>>,
                    cloned |-> FALSE, pre |-> banner, res |-> Ok(banner')]
    /\ pc' = "returned"
    /\ UNCHANGED <<hex_in, rgb_in, hex_out, stdout, stderr, exit_code>>

\* The caller has looked at what the call returned and goes on.
Resume ==
    /\ pc = "returned"
    /\ pc' = "main"
    /\ last' = NoCall
    /\ UNCHANGED <<banner, hex_in, rgb_in, hex_out,
                 stdout, stderr, exit_code>>

Next ==
    \/ CallNew
    \/ CallColorfulVersion
    \/ CallColorfulVersionFull
    \/ CallWithHexColors
    \/ CallWithRgbColors
    \/ Resume

Spec == Init /\ [][Next]_vars

\* A crate that has not constructed a banner yet and invokes the macros
\* that take the texts from the package metadata.
InitMacro ==
    /\ pc = "main"
    /\ banner = <<>>
    /\ last = NoCall
    /\ hex_in = <<>>
    /\ rgb_in = <<>>
    /\ hex_out = <<>>
    /\ stdout = <<>>
    /\ stderr = <<>>
    /\ exit_code = <<>>

NextMacro ==
    \/ CallColorfulVersion
    \/ CallColorfulVersionHex
    \/ CallColorfulVersionRgb
    \/ Resume

SpecMacro == InitMacro /\ [][NextMacro]_vars

-----------------------------------------------------------------------------
(* parse_hex on its own: the argument is drawn, or formatted from a byte   *)
(* triple, and then parsed.                                                *)

InitParse ==
    /\ banner = <<>>
    /\ last = NoCall
    /\ hex_out = <<>>
    /\ stdout = <<>>
    /\ stderr = <<>>
    /\ exit_code = <<>>
    /\ \/ /\ pc = "ready"
          /\ hex_in \in HexInputs
          /\ rgb_in = <<>>
       \/ /\ pc = "format"
          /\ hex_in = <<>>
          /\ \E f \in FormatInputs : rgb_in = <<f>>

\* The triple is written as 6 hexadecimal digits.
FormatStep ==
    /\ pc = "format"
    /\ hex_in' = FormatHex(rgb_in[1])
    /\ pc' = "ready"
    /\ UNCHANGED <<rgb_in, hex_out, banner, last,
                 stdout, stderr, exit_code>>

\* parse_hex(hex_in).
ParseStep ==
    /\ pc = "ready"
    /\ hex_out' = <<ParseHex(hex_in)>>
    /\ pc' = "parsed"
    /\ UNCHANGED <<hex_in, rgb_in, banner, last, stdout, stderr, exit_code>>

NextParse == FormatStep \/ ParseStep

SpecParse == InitParse /\ [][NextParse]_vars

-----------------------------------------------------------------------------
(* The renderings on their own: a banner is drawn and rendered once.       *)

InitRender ==
    /\ pc = "render"
    /\ \E b \in RenderBanners : banner = <<b>>
    /\ last = NoCall
    /\ hex_in = <<>>
    /\ rgb_in = <<>>
    /\ hex_out = <<>>
    /\ stdout = <<>>
    /\ stderr = <<>>
    /\ exit_code = <<>>

\* as_plain_string(&self).
CallAsPlainString ==
    /\ pc = "render"
    /\ last' = [op |-> "as_plain_string", args |-> <<>>, cloned |-> FALSE,
                pre |-> banner, res |-> Ok(AsPlainString(banner[1]))]
    /\ pc' = "rendered"
    /\ UNCHANGED <<banner, hex_in, rgb_in, hex_out,
                 stdout, stderr, exit_code>>

\* to_string(&self), format!("{}", self): the Display implementation.
CallToString ==
    /\ pc = "render"
    /\ last' = [op |-> "to_string", args |-> <<>>, cloned |-> FALSE,
                pre |-> banner, res |-> Ok(Display(banner[1]))]
    /\ pc' = "rendered"
    /\ UNCHANGED <<banner, hex_in, rgb_in, hex_out,
                 stdout, stderr, exit_code>>

\* to_colored_string(&self), with colour output enabled or not.
CallToColoredString ==
    /\ pc = "render"
    /\ \E colorize \in BOOLEAN :
        last' = [op |-> "to_colored_string", args |-> <<colorize>>,
                 cloned |-> FALSE, pre |-> banner,
                 res |-> Ok(ToColoredString(banner[1], colorize))]
    /\ pc' = "rendered"
    /\ UNCHANGED <<banner, hex_in, rgb_in, hex_out,
                 stdout, stderr, exit_code>>

NextRender == CallAsPlainString \/ CallToString \/ CallToColoredString

SpecRender == InitRender /\ [][NextRender]_vars

-----------------------------------------------------------------------------
(* A process that prints the banner: print, print_and_exit and             *)
(* parse_with_version, each line of which that writes or exits is a step.  *)

InitCli ==
    /\ pc = "main"
    /\ \E b \in CliBanners : banner = <<b>>
    /\ last = NoCall
    /\ hex_in = <<>>
    /\ rgb_in = <<>>
    /\ hex_out = <<>>
    /\ stdout = <<>>
    /\ stderr = <<>>
    /\ exit_code = <<>>

\* print(&self): returns after the line is written.
CallPrint ==
    /\ pc = "main"
    /\ \E colorize \in BOOLEAN, ok \in BOOLEAN :
        /\ PrintBanner(banner[1], colorize, ok)
        /\ last' = [op |-> "print", args |-> <<colorize>>, cloned |-> FALSE,
                    pre |-> banner, res |-> IF ok THEN Ok(<<>>) ELSE Panic]
        /\ pc' = IF ok THEN "returned" ELSE "panicked"
    /\ UNCHANGED <<banner, hex_in, rgb_in, hex_out, exit_code>>

\* print_and_exit(&self), `self.print();`.
PrintAndExitPrint ==
    /\ pc = "main"
    /\ \E colorize \in BOOLEAN, ok \in BOOLEAN :
        /\ PrintBanner(banner[1], colorize, ok)
        /\ last' = [op |-> "print_and_exit", args |-> <<colorize>>,
                    cloned |-> FALSE, pre |-> banner,
                    res |-> IF ok THEN Ok(<<>>) ELSE Panic]
        /\ pc' = IF ok THEN "print_and_exit:178" ELSE "panicked"
    /\ UNCHANGED <<banner, hex_in, rgb_in, hex_out, exit_code>>

\* print_and_exit(&self), `process::exit(0);`.
PrintAndExitExit ==
    /\ pc = "print_and_exit:178"
    /\ exit_code' = <<0>>
    /\ pc' = "exited"
    /\ UNCHANGED <<banner, last, hex_in, rgb_in, hex_out, stdout, stderr>>

\* parse_with_version, `command.with_colorful_version(version)` and
\* `command.get_matches()`: the command line is parsed; on an error
\* get_matches prints it and exits the process.
ParseWithVersionGetMatches ==
    /\ pc = "main"
    /\ \E argv \in CommandLines, command \in Commands, T \in Parsers :
        /\ last' = [op |-> "parse_with_version", args |-> <<argv, command, T>>,
                    cloned |-> FALSE, pre |-> banner,
                    res |-> TryGetMatches(
                                WithColorfulVersion(command, banner[1]), argv)]
        /\ IF last'.res.tag = "Ok"
           THEN /\ pc' = "parse_with_version:457"
                /\ UNCHANGED <<stdout, stderr, exit_code>>
           ELSE /\ pc' = "exited"
                /\ exit_code' = <<ErrorExitCode(last'.res.err)>>
                /\ IF UseStderr(last'.res.err)
                   THEN /\ stderr' = stderr \o <<last'.res.err.kind>>
                        /\ stdout' = stdout
                   ELSE /\ stdout' = stdout \o <<last'.res.err.kind>>
                        /\ stderr' = stderr
    /\ UNCHANGED <<banner, hex_in, rgb_in, hex_out>>

\* parse_with_version, the flag is set: `version.print();`.
ParseWithVersionPrint ==
    /\ pc = "parse_with_version:457"
    /\ last.res.value[1].flag
    /\ \E colorize \in BOOLEAN, ok \in BOOLEAN :
        /\ PrintBanner(banner[1], colorize, ok)
        /\ pc' = IF ok THEN "parse_with_version:459" ELSE "panicked"
    /\ UNCHANGED <<banner, last, hex_in, rgb_in, hex_out, exit_code>>

\* parse_with_version, `process::exit(0);`.
ParseWithVersionExit ==
    /\ pc = "parse_with_version:459"
    /\ exit_code' = <<0>>
    /\ pc' = "exited"
    /\ UNCHANGED <<banner, last, hex_in, rgb_in, hex_out, stdout, stderr>>

\* parse_with_version, the flag is not set: `T::from_arg_matches(&matches)`
\* is returned.
ParseWithVersionReturn ==
    /\ pc = "parse_with_version:457"
    /\ ~last.res.value[1].flag
    /\ last' = [last EXCEPT
                    !.res = FromArgMatches(last.args[3], last.res.value[1])]
    /\ pc' = "returned"
    /\ UNCHANGED <<banner, hex_in, rgb_in, hex_out, stdout, stderr, exit_code>>

NextCli ==
    \/ CallPrint
    \/ PrintAndExitPrint
    \/ PrintAndExitExit
    \/ ParseWithVersionGetMatches
    \/ ParseWithVersionPrint
    \/ ParseWithVersionExit
    \/ ParseWithVersionReturn

SpecCli == InitCli /\ [][NextCli]_vars

-----------------------------------------------------------------------------
(* A caller that registers the flag itself, as the tests and the examples  *)
(* do: a command is built, with_colorful_version registers the flag,       *)
(* subcommands may be added afterwards, try_get_matches_from parses a      *)
(* command line and check_and_exit acts on the matches.                    *)
(*   last.args   <<command line, command, subcommands added afterwards>>   *)
(*   last.pre    the same command without the registration                 *)
(*   last.res    what try_get_matches_from returned                        *)

InitArgs ==
    /\ pc = "command"
    /\ \E b \in CliBanners : banner = <<b>>
    /\ \E argv \in CommandLines, command \in ArgCommands :
        last = [op |-> "command", args |-> <<argv, command, {}>>,
                cloned |-> FALSE, pre |-> <<command>>, res |-> Ok(<<>>)]
    /\ hex_in = <<>>
    /\ rgb_in = <<>>
    /\ hex_out = <<>>
    /\ stdout = <<>>
    /\ stderr = <<>>
    /\ exit_code = <<>>

\* command.with_colorful_version(&version).
CallWithColorfulVersion ==
    /\ pc = "command"
    /\ last' = [last EXCEPT
                  !.op = "with_colorful_version",
                  !.args[2] = WithColorfulVersion(last.args[2], banner[1])]
    /\ pc' = "registered"
    /\ UNCHANGED <<banner, hex_in, rgb_in, hex_out, stdout, stderr, exit_code>>

\* .subcommand(Command::new(name)) on the command that has the flag.
CallSubcommand ==
    /\ pc = "registered"
    /\ \E name \in SubcommandNames \ last.args[2].subcommands :
        last' = [last EXCEPT !.op = "subcommand",
                             !.args[2] = Subcommand(last.args[2], name),
                             !.args[3] = @ \cup {name},
                             !.pre[1] = Subcommand(last.pre[1], name)]
    /\ UNCHANGED <<pc, banner, hex_in, rgb_in, hex_out,
                   stdout, stderr, exit_code>>

\* cmd.try_get_matches_from(argv): the result is returned to the caller.
CallTryGetMatchesFrom ==
    /\ pc = "registered"
    /\ last' = [last EXCEPT !.op = "try_get_matches_from",
                            !.res = TryGetMatches(last.args[2], last.args[1])]
    /\ pc' = "parsed"
    /\ UNCHANGED <<banner, hex_in, rgb_in, hex_out, stdout, stderr, exit_code>>

\* check_and_exit(&self, matches), the flag is set: print_and_exit is
\* called, whose `self.print();` this is.
CheckAndExitPrint ==
    /\ pc = "parsed"
    /\ last.res.tag = "Ok"
    /\ GetFlag(last.res.value[1], VersionFlagId) = Ok(<<TRUE>>)
    /\ \E colorize \in BOOLEAN, ok \in BOOLEAN :
        /\ PrintBanner(banner[1], colorize, ok)
        /\ last' = [last EXCEPT !.op = "check_and_exit"]
        /\ pc' = IF ok THEN "print_and_exit:178" ELSE "panicked"
    /\ UNCHANGED <<banner, hex_in, rgb_in, hex_out, exit_code>>

\* check_and_exit(&self, matches), the flag is not set: the call returns.
CheckAndExitReturn ==
    /\ pc = "parsed"
    /\ last.res.tag = "Ok"
    /\ GetFlag(last.res.value[1], VersionFlagId) = Ok(<<FALSE>>)
    /\ last' = [last EXCEPT !.op = "check_and_exit"]
    /\ pc' = "returned"
    /\ UNCHANGED <<banner, hex_in, rgb_in, hex_out, stdout, stderr, exit_code>>

NextArgs ==
    \/ CallWithColorfulVersion
    \/ CallSubcommand
    \/ CallTryGetMatchesFrom
    \/ CheckAndExitPrint
    \/ CheckAndExitReturn
    \/ PrintAndExitExit

SpecArgs == InitArgs /\ [][NextArgs]_vars

-----------------------------------------------------------------------------
(* What the claims speak of, stated apart from the definitions above. *)

HexDigitChars ==
    {"0", "1", "2", "3", "4", "5", "6", "7", "8", "9",
     "a", "b", "c", "d", "e", "f", "A", "B", "C", "D", "E", "F"}

\* The value of a hexadecimal digit.
HexValueOf(c) ==
    CASE c = "0" -> 0 [] c = "1" -> 1 [] c = "2" -> 2 [] c = "3" -> 3
      [] c = "4" -> 4 [] c = "5" -> 5 [] c = "6" -> 6 [] c = "7" -> 7
      [] c = "8" -> 8 [] c = "9" -> 9
      [] c \in {"a", "A"} -> 10 [] c \in {"b", "B"} -> 11
      [] c \in {"c", "C"} -> 12 [] c \in {"d", "D"} -> 13
      [] c \in {"e", "E"} -> 14 [] c \in {"f", "F"} -> 15

\* s consists of exactly n hexadecimal digits.
IsHexDigits(s, n) == Len(s) = n /\ \A i \in 1..n : s[i] \in HexDigitChars

\* s without one leading '#', if it has one.
StripOne(s) == IF s # <<>> /\ Head(s) = "#" THEN Tail(s) ELSE s

\* s without its leading '#' characters, however many.
StripLeading(s) ==
    LET n == Cardinality({k \in 1..Len(s) : \A i \in 1..k : s[i] = "#"})
    IN  SubSeq(s, n + 1, Len(s))

\* s is t, or t after one '#'.
IsOptHash(s, t) == s = t \/ s = <<"#">> \o t

\* A parse_hex call has returned or unwound; Parsed is what it gave.
ParseDone == pc = "parsed"
Parsed == hex_out[1]

\* A with_hex_colors call has returned or unwound.
HexCallDone == pc = "returned" /\ last.op = "with_hex_colors"

\* The two cases of a letter a-f, and the strings that differ from s only
\* in the case of such letters.
BothCases(c) ==
    IF \E i \in 11..16 : c \in {LowerDigits[i], UpperDigits[i]}
    THEN LET i == CHOOSE k \in 11..16 : c \in {LowerDigits[k], UpperDigits[k]}
         IN  {LowerDigits[i], UpperDigits[i]}
    ELSE {c}

RECURSIVE CaseVariants(_)
CaseVariants(s) ==
    IF s = <<>> THEN {<<>>}
    ELSE {<<c>> \o t : c \in BothCases(Head(s)), t \in CaseVariants(Tail(s))}

-----------------------------------------------------------------------------
(* C1..C8: parse_hex, under SpecParse. *)

\* C1: parse_hex(s) succeeds if and only if s, after stripping a leading
\* '#', consists of exactly 3 or exactly 6 hexadecimal digits; every other
\* input yields the InvalidHexColor error.
C1_AcceptsExactlyHexDigits ==
    ParseDone =>
        LET t == StripOne(hex_in)
            wellFormed == IsHexDigits(t, 3) \/ IsHexDigits(t, 6)
        IN  /\ (Parsed.tag = "Ok") <=> wellFormed
            /\ ~wellFormed =>
                   (Parsed.tag = "Err" /\ Parsed.err.kind = "InvalidHexColor")

\* C2: for 6 hexadecimal digits d1..d6, with or without one leading '#',
\* parse_hex returns Ok((16*d1+d2, 16*d3+d4, 16*d5+d6)).
C2_SixDigitChannels ==
    ParseDone =>
        \A t \in {hex_in, StripOne(hex_in)} :
            IsHexDigits(t, 6) /\ IsOptHash(hex_in, t) =>
                Parsed = Ok(<<16 * HexValueOf(t[1]) + HexValueOf(t[2]),
                              16 * HexValueOf(t[3]) + HexValueOf(t[4]),
                              16 * HexValueOf(t[5]) + HexValueOf(t[6])>>)

\* C2's case: '#' and six digits, parsed into the three channels in order.
C2_Witness ==
    /\ ParseDone
    /\ hex_in = <<"#", "a", "F", "F", "a", "a", "a">>
    /\ Parsed = Ok(<<175, 250, 170>>)

\* C3: for 3 hexadecimal digits x y z, with or without one leading '#',
\* parse_hex returns what it returns for xxyyzz: each channel is 17 times
\* the digit's value.
C3_ThreeDigitExpansion ==
    ParseDone =>
        \A t \in {hex_in, StripOne(hex_in)} :
            IsHexDigits(t, 3) /\ IsOptHash(hex_in, t) =>
                /\ Parsed = Ok(<<17 * HexValueOf(t[1]),
                                 17 * HexValueOf(t[2]),
                                 17 * HexValueOf(t[3])>>)
                /\ Parsed = ParseHex(<<t[1], t[1], t[2], t[2], t[3], t[3]>>)
                /\ Parsed = ParseHex(<<"#", t[1], t[1], t[2], t[2], t[3], t[3]>>)

\* C3's case: '#' and three digits, each doubled.
C3_Witness ==
    /\ ParseDone
    /\ hex_in = <<"#", "f", "0", "9">>
    /\ Parsed = Ok(<<255, 0, 153>>)

\* C4: an input with two or more leading '#' followed by 3 or 6 hexadecimal
\* digits is rejected with InvalidHexColor.
C4_OnlyOneHashStripped ==
    ParseDone =>
        \A n \in 2..Len(hex_in) :
            LET digits == SubSeq(hex_in, n + 1, Len(hex_in))
            IN  ( /\ \A i \in 1..n : hex_in[i] = "#"
                  /\ (IsHexDigits(digits, 3) \/ IsHexDigits(digits, 6)) )
                => (Parsed.tag = "Err" /\ Parsed.err.kind = "InvalidHexColor")

\* C5: parse_hex and with_hex_colors return Ok or Err on every input,
\* multi-byte characters included, and never panic.
C5_NeverPanics ==
    /\ ParseDone => Parsed.tag \in {"Ok", "Err"}
    /\ HexCallDone => last.res.tag \in {"Ok", "Err"}

C7_HexRoundTrip ==
    ParseDone /\ rgb_in # <<>> => Parsed = Ok(rgb_in[1].rgb)

\* C7's case: (171, 9, 255) written as #ab09ff and parsed back.
C7_Witness ==
    /\ ParseDone
    /\ rgb_in = <<[rgb |-> <<171, 9, 255>>, upper |-> FALSE, hash |-> TRUE]>>
    /\ hex_in = <<"#", "a", "b", "0", "9", "f", "f">>
    /\ Parsed = Ok(<<171, 9, 255>>)

\* C8: for every accepted input, changing the case of any of its letters
\* a-f gives the same colour triple.
C8_CaseInsensitive ==
    ParseDone /\ Parsed.tag = "Ok" =>
        \A t \in CaseVariants(hex_in) : ParseHex(t) = Parsed

\* C8's cases: a mixed-case 6-digit input and a mixed-case 3-digit input
\* are accepted.
C8_Witness ==
    /\ ParseDone
    /\ Parsed.tag = "Ok"
    /\ hex_in \in {<<"a", "F", "a", "F", "F", "a">>, <<"#", "a", "F", "f">>}
    /\ Cardinality(CaseVariants(hex_in)) > 1

-----------------------------------------------------------------------------
(* C9, C10: with_hex_colors, under Spec. *)

\* What parse_hex gives for each of the four arguments of the call.
ArgParses ==
    <<ParseHex(last.args[1]), ParseHex(last.args[2]),
      ParseHex(last.args[3]), ParseHex(last.args[4])>>

\* Of four parses, the arguments that parse_hex did not accept.
BadArgs(p) == {i \in 1..4 : p[i].tag # "Ok"}

\* Of four parses, the four colours the arguments stand for.
ArgColors(p) ==
    [name_fg |-> p[1].value,
     name_bg |-> p[2].value,
     version_color |-> p[3].value,
     author_color |-> p[4].value]

\* C9: after with_hex_colors, a banner that is returned carries the four new
\* colours and is returned only if all four arguments are valid; if one is
\* invalid no banner is returned, and a banner the caller still holds has
\* the colours it had before the call: no banner has some of the four
\* colours updated.
C9_AllOrNothing ==
    HexCallDone =>
        LET p == ArgParses
            bad == BadArgs(p)
        IN  /\ last.res.tag = "Ok" =>
                   (bad = {} /\ last.res.value[1].colors = ArgColors(p))
            /\ bad # {} =>
                   /\ last.res.tag # "Ok"
                   /\ last.res.value = <<>>
                   /\ banner \in {<<>>, last.pre}
            /\ banner # <<>> =>
                   \/ banner[1].colors = last.pre[1].colors
                   \/ bad = {} /\ banner[1].colors = ArgColors(p)

\* C9's case: the first two colours are valid, the third is not; the call
\* made on a clone of an overridden banner returns the error and the
\* caller's banner still has its four colours.
C9_Witness ==
    /\ HexCallDone
    /\ last.res.tag = "Err"
    /\ last.cloned
    /\ banner = last.pre
    /\ banner[1].colors # DefaultColors
    /\ LET p == ArgParses
       IN  /\ p[1].tag = "Ok" /\ p[2].tag = "Ok" /\ p[3].tag = "Err"
           /\ banner[1].colors.name_fg # p[1].value

-----------------------------------------------------------------------------
(* C11..C13: the builders, under Spec. *)

\* C11: when parse_hex accepts all four arguments, with_hex_colors returns
\* Ok with a banner whose name_fg, name_bg, version_color and author_color
\* are what parse_hex gives for the first, second, third and fourth
\* argument, and that banner is the one with_rgb_colors gives for the four
\* parsed triples.
C11_HexOverrideIsRgbOfParsed ==
    HexCallDone =>
        LET p == ArgParses
        IN  BadArgs(p) = {} =>
                /\ last.res.tag = "Ok"
                /\ last.res.value[1].colors.name_fg = p[1].value
                /\ last.res.value[1].colors.name_bg = p[2].value
                /\ last.res.value[1].colors.version_color = p[3].value
                /\ last.res.value[1].colors.author_color = p[4].value
                /\ last.res.value[1] =
                       WithRgbColors(last.pre[1], p[1].value, p[2].value,
                                     p[3].value, p[4].value)

\* C11's case: "#F00" and "0a9Bf3" as name_fg and name_bg of a banner that
\* had other colours.
C11_Witness ==
    /\ HexCallDone
    /\ last.args[1] = <<"#", "F", "0", "0">>
    /\ last.args[2] = <<"0", "a", "9", "B", "f", "3">>
    /\ BadArgs(ArgParses) = {}
    /\ last.pre[1].colors.name_bg # <<10, 155, 243>>
    /\ last.res.tag = "Ok"
    /\ last.res.value[1].colors.name_fg = <<255, 0, 0>>
    /\ last.res.value[1].colors.name_bg = <<10, 155, 243>>

\* A with_rgb_colors call has returned.
RgbCallDone == pc = "returned" /\ last.op = "with_rgb_colors"

\* C12: with_rgb_colors never fails: it returns a banner whose name_fg,
\* name_bg, version_color and author_color are the first, second, third and
\* fourth triple given, every channel as given, and whose texts are those
\* of the banner it was called on.
C12_RgbOverrideExact ==
    RgbCallDone =>
        /\ last.res.tag = "Ok"
        /\ Len(last.res.value) = 1
        /\ last.res.value[1].colors.name_fg = last.args[1]
        /\ last.res.value[1].colors.name_bg = last.args[2]
        /\ last.res.value[1].colors.version_color = last.args[3]
        /\ last.res.value[1].colors.author_color = last.args[4]
        /\ last.res.value[1].package_name = last.pre[1].package_name
        /\ last.res.value[1].version = last.pre[1].version
        /\ last.res.value[1].author = last.pre[1].author
        /\ banner = last.res.value

\* C12's case: different triples for the version and the author.
C12_Witness ==
    /\ RgbCallDone
    /\ last.args = <<<<255, 128, 1>>, <<0, 0, 0>>, <<0, 0, 0>>, <<255, 128, 1>>>>
    /\ banner[1].colors.version_color = <<0, 0, 0>>
    /\ banner[1].colors.author_color = <<255, 128, 1>>

\* A constructor call has returned: new, colorful_version!() or
\* colorful_version_full!(name, version, author).
NewCallDone ==
    /\ pc = "returned"
    /\ last.op \in {"new", "colorful_version!", "colorful_version_full!"}

\* C13: a banner constructed by new, by colorful_version!() or by the
\* three-argument colorful_version_full! has name_fg (255,255,255), name_bg
\* (170,0,255), version_color (255,255,0) and author_color (0,255,255),
\* whatever the package name, version and author, and carries these three
\* texts as given.
C13_DefaultColors ==
    NewCallDone =>
        /\ Len(banner) = 1
        /\ banner[1].colors.name_fg = <<255, 255, 255>>
        /\ banner[1].colors.name_bg = <<170, 0, 255>>
        /\ banner[1].colors.version_color = <<255, 255, 0>>
        /\ banner[1].colors.author_color = <<0, 255, 255>>
        /\ banner[1].package_name = last.args[1]
        /\ banner[1].version = last.args[2]
        /\ banner[1].author = last.args[3]

\* C13's case: a banner of three empty texts, constructed where the caller
\* held a banner of other colours.
C13_Witness ==
    /\ NewCallDone
    /\ last.op = "colorful_version_full!"
    /\ last.args = <<<<>>, <<>>, <<>>>>
    /\ last.pre # <<>>
    /\ last.pre[1].colors.name_bg = <<0, 0, 0>>
    /\ banner[1].colors.name_bg = <<170, 0, 255>>

-----------------------------------------------------------------------------
(* C14..C17: the renderings, under SpecRender. *)

\* A rendering call has returned; Rendered is the string it gave.
PlainDone == pc = "rendered" /\ last.op \in {"as_plain_string", "to_string"}
ColoredDone == pc = "rendered" /\ last.op = "to_colored_string"
Rendered == last.res.value

\* The layout: the name, a space, 'v', the version, a space, "by", a space,
\* the author.
PlainLayout(name, version, author) ==
    name \o <<" ">> \o <<"v">> \o version \o <<" ">> \o <<"b", "y">>
        \o <<" ">> \o author

\* The banner with another ColorSet.
Recolored(b, colors) == [b EXCEPT !.colors = colors]

\* C14: as_plain_string() and the Display output are both exactly
\* package_name, " v", version, " by ", author with nothing before, between
\* or after; the two are equal, and the same for every ColorSet.
C14_PlainLayout ==
    PlainDone =>
        /\ Rendered = PlainLayout(banner[1].package_name, banner[1].version,
                                  banner[1].author)
        /\ AsPlainString(banner[1]) = Display(banner[1])
        /\ \A c \in {DefaultColors, RenderColors} :
               /\ AsPlainString(Recolored(banner[1], c)) = Rendered
               /\ Display(Recolored(banner[1], c)) = Rendered

\* C14's case: "app v1.0 by a" of a banner with overridden colours.
C14_Witness ==
    /\ PlainDone
    /\ last.op = "as_plain_string"
    /\ banner[1].colors = RenderColors
    /\ Rendered = <<"a", "p", "p", " ", "v", "1", ".", "0", " ", "b", "y",
                    " ", "a">>

\* How many escape characters s has.
EscCount(s) == Cardinality({i \in 1..Len(s) : s[i] = "ESC"})

\* C15 as stated: the plain rendering never contains the escape character,
\* whatever the banner's contents and colours.
C15_PlainNeverHasEsc == PlainDone => EscCount(Rendered) = 0

\* C15, amended: the plain rendering has exactly the escape characters of
\* the package name, the version and the author, so none when these have
\* none, whatever the colours.
C15_PlainAddsNoEsc ==
    PlainDone =>
        EscCount(Rendered) =
            EscCount(banner[1].package_name) + EscCount(banner[1].version)
                + EscCount(banner[1].author)

\* C15's case: the Display output of a banner with overridden colours and
\* texts without the escape character has none.
C15_Witness ==
    /\ PlainDone
    /\ last.op = "to_string"
    /\ banner[1].colors = RenderColors
    /\ banner[1].package_name = <<"a", "p", "p">>
    /\ EscCount(banner[1].version \o banner[1].author) = 0
    /\ EscCount(Rendered) = 0

\* What a terminal shows of a string: its characters, each with the
\* foreground and background in force where it stands.  A sequence
\* ESC [ parameters m sets the style and shows nothing: parameter 0 (or
\* none) clears both colours, 38;2;r;g;b sets the foreground, 48;2;r;g;b
\* the background.
NoStyle == [fg |-> <<>>, bg |-> <<>>]

IsParamChar(c) == c = ";" \/ \E d \in 1..10 : DecimalDigits[d] = c

\* Where the style sequence at the start of s ends; 0 if s starts with none.
SgrEnd(s) ==
    IF Len(s) >= 3 /\ s[1] = "ESC" /\ s[2] = "["
    THEN LET ends == {k \in 3..Len(s) :
                         /\ s[k] = "m"
                         /\ \A i \in 3..(k - 1) : IsParamChar(s[i])}
         IN  IF ends = {} THEN 0
             ELSE CHOOSE k \in ends : \A j \in ends : k <= j
    ELSE 0

\* The numbers of a parameter string; an empty parameter is 0.
RECURSIVE ParamNumbers(_, _)
ParamNumbers(params, current) ==
    IF params = <<>> THEN <<current>>
    ELSE IF Head(params) = ";"
         THEN <<current>> \o ParamNumbers(Tail(params), 0)
         ELSE ParamNumbers(
                  Tail(params),
                  current * 10
                      + (CHOOSE d \in 0..9 : DecimalDigits[d + 1] = Head(params)))

\* The style after the parameters nums.
RECURSIVE ApplySgr(_, _)
ApplySgr(nums, style) ==
    IF nums = <<>> THEN style
    ELSE IF Head(nums) = 0 THEN ApplySgr(Tail(nums), NoStyle)
    ELSE IF Head(nums) \in {38, 48} /\ Len(nums) >= 5 /\ nums[2] = 2
         THEN ApplySgr(
                  SubSeq(nums, 6, Len(nums)),
                  IF Head(nums) = 38
                  THEN [style EXCEPT !.fg = <<SubSeq(nums, 3, 5)>>]
                  ELSE [style EXCEPT !.bg = <<SubSeq(nums, 3, 5)>>])
         ELSE ApplySgr(Tail(nums), style)

RECURSIVE Cells(_, _)
Cells(s, style) ==
    IF s = <<>> THEN <<>>
    ELSE LET k == SgrEnd(s)
         IN  IF k > 0
             THEN Cells(SubSeq(s, k + 1, Len(s)),
                        ApplySgr(ParamNumbers(SubSeq(s, 3, k - 1), 0), style))
             ELSE <<[ch |-> Head(s), fg |-> style.fg, bg |-> style.bg]>>
                      \o Cells(Tail(s), style)

\* The characters a terminal shows of s, whatever their style.
Shown(s) == LET cells == Cells(s, NoStyle)
            IN  [i \in 1..Len(cells) |-> cells[i].ch]

\* The characters of text shown with foreground fg and background bg
\* (<<>>: none).
Painted(text, fg, bg) ==
    LET shown == Shown(text)
    IN  [i \in 1..Len(shown) |-> [ch |-> shown[i], fg |-> fg, bg |-> bg]]

\* C16: to_colored_string() is three styled segments in this order: the
\* package name in foreground name_fg on background name_bg, " v" and the
\* version in foreground version_color with no background, " by " and the
\* author in foreground author_color with no background; with the styling
\* removed it is as_plain_string() (which it is as it stands when colour
\* output is disabled).
C16_ThreeStyledSegments ==
    ColoredDone =>
        LET b == banner[1]
        IN  /\ last.args[1] =>
                   Cells(Rendered, NoStyle) =
                       Painted(b.package_name, <<b.colors.name_fg>>,
                               <<b.colors.name_bg>>)
                         \o Painted(<<" ", "v">> \o b.version,
                                    <<b.colors.version_color>>, <<>>)
                         \o Painted(<<" ", "b", "y", " ">> \o b.author,
                                    <<b.colors.author_color>>, <<>>)
            /\ Shown(Rendered) = Shown(AsPlainString(b))
            /\ EscCount(AsPlainString(b)) = 0 =>
                   Shown(Rendered) = AsPlainString(b)
            /\ ~last.args[1] => Rendered = AsPlainString(b)

\* C16's case: "app v1.0 by a" in the overridden colours, colour output
\* enabled.
C16_Witness ==
    /\ ColoredDone
    /\ last.args[1]
    /\ banner[1].colors = RenderColors
    /\ Rendered =
           <<"ESC", "[", "4", "8", ";", "2", ";", "0", ";", "0", ";", "0", ";",
             "3", "8", ";", "2", ";", "1", ";", "2", "0", ";", "2", "5", "5",
             "m", "a", "p", "p", "ESC", "[", "0", "m">>
             \o <<"ESC", "[", "3", "8", ";", "2", ";", "9", ";", "1", "0", ";",
                  "9", "9", "m", " ", "v", "1", ".", "0", "ESC", "[", "0", "m">>
             \o <<"ESC", "[", "3", "8", ";", "2", ";", "1", "0", "0", ";", "7",
                  ";", "4", "2", "m", " ", "b", "y", " ", "a",
                  "ESC", "[", "0", "m">>

\* The length of s in bytes: one for each character, one more for each
\* 2-byte character and two more for each 3-byte character.
ByteLen(s) ==
    Len(s) + Cardinality({i \in 1..Len(s) : s[i] = "U+00E9"})
           + 2 * Cardinality({i \in 1..Len(s) : s[i] = "U+20AC"})

\* C17: to_colored_string() is never empty and never shorter, in bytes or
\* in characters, than the plain string, with colour output enabled and
\* with it disabled.
C17_ColoredNotShorter ==
    ColoredDone =>
        /\ Rendered # <<>>
        /\ ByteLen(Rendered) >= ByteLen(AsPlainString(banner[1]))
        /\ Len(Rendered) >= Len(AsPlainString(banner[1]))

\* C17's case: the banner of three empty texts with colour output
\* disabled: the colored string is " v by ", as long as the plain one.
C17_Witness ==
    /\ ColoredDone
    /\ ~last.args[1]
    /\ banner[1].package_name = <<>>
    /\ banner[1].version = <<>>
    /\ banner[1].author = <<>>
    /\ Rendered = <<" ", "v", " ", "b", "y", " ">>
    /\ ByteLen(Rendered) = ByteLen(AsPlainString(banner[1]))

-----------------------------------------------------------------------------
(* C18..C20: the process, under SpecCli. *)

\* The line of the banner as to_colored_string() gives it.
ColoredLine(colorize) == ToColoredString(banner[1], colorize) \o <<"\n">>

\* C18: print_and_exit writes exactly to_colored_string() and one newline
\* to the standard output stream and only then exits with code 0: the line
\* is complete before the exit, the process has no other exit code and has
\* written nothing else when it exits, and control never returns to the
\* caller.
C18_PrintThenExit ==
    last.op = "print_and_exit" =>
        /\ pc \in {"print_and_exit:178", "exited", "panicked"}
        /\ pc = "print_and_exit:178" =>
               (exit_code = <<>> /\ stdout = ColoredLine(last.args[1]))
        /\ (pc = "exited" \/ exit_code # <<>>) =>
               /\ pc = "exited"
               /\ exit_code = <<0>>
               /\ stdout = ColoredLine(last.args[1])
               /\ stderr = <<>>
        /\ banner = last.pre

\* C18's case: the process has exited with code 0 after print_and_exit on
\* a banner of overridden colours, colour output enabled, the line on the
\* standard output stream.
C18_Witness ==
    /\ last.op = "print_and_exit"
    /\ pc = "exited"
    /\ exit_code = <<0>>
    /\ last.args[1]
    /\ banner[1].colors = RenderColors
    /\ banner[1].package_name = <<"a", "p", "p">>
    /\ stdout = ColoredLine(TRUE)
    /\ Len(stdout) > Len(AsPlainString(banner[1])) + 1

\* parse_with_version has been called on the command line CalledArgv.
ParseWithVersionCalled == last.op = "parse_with_version"
CalledArgv == last.args[1]

\* How often the version flag, in either form, and the help flag are on a
\* command line.
VersionFlagCount(argv) ==
    Cardinality({i \in 1..Len(argv) : argv[i] \in {"-V", "--version"}})
HelpAsked(argv) == \E i \in 1..Len(argv) : argv[i] \in {"-h", "--help"}

\* C19: whenever -V or --version is on the command line (once, and no help
\* is asked for), parse_with_version prints the banner and the process
\* exits with code 0, even if the rest of the command line fails
\* validation: the call does not return, and the process exits only with
\* code 0 and the banner's line on the standard output stream.
C19_VersionFlagShortCircuits ==
    (ParseWithVersionCalled /\ VersionFlagCount(CalledArgv) = 1
         /\ ~HelpAsked(CalledArgv)) =>
        /\ pc # "returned"
        /\ pc = "exited" =>
               /\ exit_code = <<0>>
               /\ stderr = <<>>
               /\ \E colorize \in BOOLEAN : stdout = ColoredLine(colorize)

\* C20: when the version flag is absent (and no help is asked for),
\* parse_with_version returns to its caller in every case, a parse error
\* as an Err value: it never exits the process.
C20_ReturnsWhenFlagAbsent ==
    (ParseWithVersionCalled /\ VersionFlagCount(CalledArgv) = 0
         /\ ~HelpAsked(CalledArgv)) =>
        /\ pc # "exited"
        /\ exit_code = <<>>
        /\ pc = "returned" => last.res.tag \in {"Ok", "Err"}

\* The caller's parse has returned: the command line, the command with the
\* flag, the same command without it, and the result.
ArgsParsed == last.op \in {"try_get_matches_from", "check_and_exit"}
ParsedArgv == last.args[1]
ParsedCommand == last.args[2]
PlainCommand == last.pre[1]
ParseResult == last.res

\* A command line without its version flags.
WithoutVersionFlag(argv) ==
    SelectSeq(argv, LAMBDA a : a \notin {"-V", "--version"})

\* C21: after with_colorful_version, a parse that gives matches has the
\* flag present in them, true exactly if -V or --version is on the command
\* line and false (not missing) otherwise; and putting the flag, short or
\* long, once at any position of a command line that parses leaves it
\* parsing.
C21_FlagSetIffGiven ==
    ArgsParsed =>
        /\ ParseResult.tag = "Ok" =>
               GetFlag(ParseResult.value[1], VersionFlagId)
                   = Ok(<<VersionFlagCount(ParsedArgv) > 0>>)
        /\ ( /\ VersionFlagCount(ParsedArgv) = 1
             /\ TryGetMatches(ParsedCommand,
                              WithoutVersionFlag(ParsedArgv)).tag = "Ok" )
               => ParseResult.tag = "Ok"

\* The short form after another argument sets the flag.
C21_Witness ==
    /\ ArgsParsed
    /\ ParsedArgv = <<"file", "-V">>
    /\ ParseResult.tag = "Ok"
    /\ ParseResult.value[1].flag
    /\ ParseResult.value[1].input = <<"file">>

\* The version flag stands after the name of one of the command's
\* subcommands.
FlagAfterSubcommand(command, argv) ==
    \E i, j \in 1..Len(argv) :
        /\ i < j
        /\ argv[i] \in command.subcommands
        /\ argv[j] \in {"-V", "--version"}

\* C22: the flag is global: given (once) after the name of a subcommand,
\* whether the subcommand was added before or after the registration, on a
\* command line that parses without it, the parse succeeds and the flag
\* reads true in the matches, as at the root.
C22_FlagIsGlobal ==
    ( /\ ArgsParsed
      /\ FlagAfterSubcommand(ParsedCommand, ParsedArgv)
      /\ VersionFlagCount(ParsedArgv) = 1
      /\ TryGetMatches(ParsedCommand,
                       WithoutVersionFlag(ParsedArgv)).tag = "Ok" )
        => /\ ParseResult.tag = "Ok"
           /\ ParseResult.value[1].subcommand # <<>>
           /\ GetFlag(ParseResult.value[1], VersionFlagId) = Ok(<<TRUE>>)

\* The flag after a subcommand that was added after the registration.
C22_Witness ==
    /\ ArgsParsed
    /\ ParsedArgv = <<"sub1", "--version">>
    /\ last.args[3] = {"sub1"}
    /\ ParseResult.tag = "Ok"
    /\ ParseResult.value[1].subcommand = <<"sub1">>
    /\ ParseResult.value[1].flag

\* C23 as stated: after with_colorful_version no command line ends in
\* DisplayVersion or in an argument-conflict error, and -V / --version, on
\* a command line that parses without them, only set the library's flag
\* and the parse returns the matches.
C23_NeverConflicts ==
    ArgsParsed =>
        /\ ParseResult.tag \in {"Ok", "Err"}
        /\ ParseResult.tag = "Err" =>
               ParseResult.err.kind \notin {"DisplayVersion",
                                            "ArgumentConflict"}
        /\ ( /\ VersionFlagCount(ParsedArgv) > 0
             /\ TryGetMatches(ParsedCommand,
                              WithoutVersionFlag(ParsedArgv)).tag = "Ok" )
               => ParseResult =
                      Ok(<<[TryGetMatches(ParsedCommand,
                                WithoutVersionFlag(ParsedArgv)).value[1]
                            EXCEPT !.flag = TRUE]>>)

\* C23: after with_colorful_version one binding of -V / --version is
\* active, the library's: the command is accepted by the parser even if it
\* has a version of its own, no command line ends in DisplayVersion, and
\* the flag given once produces no argument-conflict error: on a command
\* line that parses without it, it only sets the library's flag and the
\* parse returns the same matches otherwise.
C23_SingleBinding ==
    ArgsParsed =>
        /\ ParseResult.tag \in {"Ok", "Err"}
        /\ ParseResult.tag = "Err" =>
               /\ ParseResult.err.kind # "DisplayVersion"
               /\ VersionFlagCount(ParsedArgv) = 1 =>
                      ParseResult.err.kind # "ArgumentConflict"
        /\ ( /\ VersionFlagCount(ParsedArgv) = 1
             /\ TryGetMatches(ParsedCommand,
                              WithoutVersionFlag(ParsedArgv)).tag = "Ok" )
               => ParseResult =
                      Ok(<<[TryGetMatches(ParsedCommand,
                                WithoutVersionFlag(ParsedArgv)).value[1]
                            EXCEPT !.flag = TRUE]>>)

\* A command with a version of its own, on which --version is the built-in
\* DisplayVersion before the registration and the library's flag after it.
C23_Witness ==
    /\ ArgsParsed
    /\ PlainCommand.has_version
    /\ ParsedArgv = <<"--version">>
    /\ TryGetMatches(PlainCommand, ParsedArgv)
           = Err(ClapError("DisplayVersion"))
    /\ ParseResult.tag = "Ok"
    /\ ParseResult.value[1].flag

\* The standard output stream did not take the banner's line: println!
\* has panicked, its message is on the standard error stream.
StdoutFailed ==
    /\ last.op \in {"print", "print_and_exit", "parse_with_version",
                    "check_and_exit"}
    /\ \E i \in 1..Len(stderr) : stderr[i] = PrintPanicMessage

\* C24: when the standard output stream fails while the banner is printed
\* (print, print_and_exit, check_and_exit, parse_with_version), the call
\* returns to its caller the error VersionError::IoError that wraps the
\* I/O error: the process does not panic.
C24_StdoutFailureIsIoError ==
    StdoutFailed =>
        /\ pc = "returned"
        /\ last.res.tag = "Err"
        /\ last.res.err.kind = "IoError"

\* A macro invocation is over: it has returned or panicked.  MacroCaller
\* is the crate it was invoked in.
HexMacroDone == last.op = "colorful_version!(hex)"
MacroCaller == last.args[Len(last.args)]

\* s is a hex colour: three or six hexadecimal digits after an optional '#'.
IsHexColor(s) ==
    \/ IsHexDigits(StripOne(s), 3)
    \/ IsHexDigits(StripOne(s), 6)

\* C25: the four-argument colorful_version! gives, when all four literals
\* are hex colours, the banner that new(..).with_hex_colors(a, b, c, d)
\* gives, with the four parsed colours; when one is not, it panics with a
\* message that contains "Invalid hex color format" and gives no banner.
C25_HexMacroBannerOrPanic ==
    HexMacroDone =>
        IF \A i \in 1..4 : IsHexColor(last.args[i])
        THEN /\ pc = "returned"
             /\ Len(banner) = 1
             /\ banner[1].colors = ArgColors(ArgParses)
        ELSE /\ pc = "panicked"
             /\ banner = <<>>
             /\ last.res.tag = "Panic"
             /\ Contains(last.res.err.text, MsgInvalid)

\* An invocation of a macro that takes the texts from the package metadata
\* has returned a banner.
MetadataMacroDone ==
    /\ pc = "returned"
    /\ last.op \in {"colorful_version!", "colorful_version!(hex)",
                    "colorful_version_rgb!"}

\* C26: the banner that colorful_version!(), its four-argument hex form or
\* colorful_version_rgb! builds has as package name, version and author
\* the package metadata of the crate in which the macro was invoked, not
\* those of the library.
C26_CallerMetadata ==
    MetadataMacroDone =>
        /\ PackageName(banner[1]) = CargoPkg(MacroCaller)[1]
        /\ Version(banner[1]) = CargoPkg(MacroCaller)[2]
        /\ Author(banner[1]) = CargoPkg(MacroCaller)[3]

\* The hex form invoked in an application: the banner has the
\* application's name, which is not the library's.
C26_Witness ==
    /\ MetadataMacroDone
    /\ last.op = "colorful_version!(hex)"
    /\ MacroCaller = "app"
    /\ PackageName(banner[1]) = <<"a", "p", "p">>
    /\ PackageName(banner[1]) # CargoPkg(LibraryCrate)[1]

\* check_and_exit has been called on the matches of the caller's parse.
CheckAndExitCalled == last.op = "check_and_exit"

\* C27: check_and_exit(matches) exits the process, with code 0 and after
\* the banner's line, only if the flag is true in matches, and then never
\* returns; if the flag is false it returns to the caller with nothing
\* written and nothing changed.
C27_CheckAndExit ==
    CheckAndExitCalled =>
        IF ParseResult.value[1].flag
        THEN /\ pc # "returned"
             /\ pc = "exited" =>
                    /\ exit_code = <<0>>
                    /\ stderr = <<>>
                    /\ \E colorize \in BOOLEAN : stdout = ColoredLine(colorize)
        ELSE /\ pc = "returned"
             /\ stdout = <<>>
             /\ stderr = <<>>
             /\ exit_code = <<>>

\* The flag was given and the process has exited with code 0 after the
\* banner's line.
C27_Witness ==
    /\ CheckAndExitCalled
    /\ ParsedArgv = <<"file", "--version">>
    /\ pc = "exited"
    /\ exit_code = <<0>>
    /\ stdout # <<>>

\* C28: registering the flag leaves the rest of the parse as it was: a
\* command line without -V / --version gives on the command with the flag
\* what it gives on the same command without it: the same error (an
\* unknown argument is still UnknownArgument, --help still DisplayHelp, a
\* missing required argument still missing), or matches with the same
\* value of every other argument, defaults included, and the same
\* subcommand.
C28_RestOfParseUnchanged ==
    (ArgsParsed /\ VersionFlagCount(ParsedArgv) = 0) =>
        /\ ParseResult.tag = TryGetMatches(PlainCommand, ParsedArgv).tag
        /\ ParseResult.err = TryGetMatches(PlainCommand, ParsedArgv).err
        /\ ParseResult.tag = "Ok" =>
               /\ ParseResult.value[1].input
                      = TryGetMatches(PlainCommand, ParsedArgv).value[1].input
               /\ ParseResult.value[1].subcommand
                      = TryGetMatches(PlainCommand,
                                      ParsedArgv).value[1].subcommand
        /\ (\E i \in 1..Len(ParsedArgv) : ParsedArgv[i] = "--bogus")
               => ParseResult.tag = "Err"
        /\ ParsedArgv = <<"--help">>
               => ParseResult = Err(ClapError("DisplayHelp"))

\* A command line without the flag and without a value, on a command whose
\* argument has a default: the default is the argument's value, with the
\* flag registered as without it.
C28_Witness ==
    /\ ArgsParsed
    /\ ParsedArgv = <<"sub1">>
    /\ PlainCommand.input_default = <<"dflt">>
    /\ PlainCommand.subcommands = {"sub1"}
    /\ ParseResult.tag = "Ok"
    /\ ParseResult.value[1].input = <<"dflt">>
    /\ ~ParseResult.value[1].flag

\* The three texts of a banner, as its accessors return them.
Texts(self) == <<PackageName(self), Version(self), Author(self)>>

\* The step is a call that constructs a banner.
ConstructorStep ==
    last'.op \in {"new", "colorful_version!", "colorful_version_full!"}

\* The step is a colour override that succeeds, and the four colours its
\* arguments stand for.
OverrideStep ==
    /\ pc = "main" /\ pc' = "returned"
    /\ last'.op \in {"with_hex_colors", "with_rgb_colors"}
    /\ last'.res.tag = "Ok"
OverrideColors ==
    IF last'.op = "with_rgb_colors"
    THEN [name_fg |-> last'.args[1], name_bg |-> last'.args[2],
          version_color |-> last'.args[3], author_color |-> last'.args[4]]
    ELSE [name_fg |-> ParseHex(last'.args[1]).value,
          name_bg |-> ParseHex(last'.args[2]).value,
          version_color |-> ParseHex(last'.args[3]).value,
          author_color |-> ParseHex(last'.args[4]).value]

\* C29: through any sequence of colour overrides the banner's
\* package_name(), version() and author() stay the strings given when it
\* was constructed, and its colours are the four of the last successful
\* override alone: a successful override leaves the texts and sets all
\* four colours to those of its arguments, and every other step that is no
\* construction leaves texts and colours of the banner the caller holds.
C29_OverridesKeepTexts ==
    [][ /\ OverrideStep =>
               /\ banner # <<>> /\ Len(banner') = 1
               /\ Texts(banner'[1]) = Texts(banner[1])
               /\ banner'[1].colors = OverrideColors
        /\ (~OverrideStep /\ ~ConstructorStep /\ banner' # <<>>) =>
               banner' = banner ]_vars

\* A second override, of the other kind: the banner has the texts given to
\* new and the four colours of the second override, none of the first.
C29_Witness ==
    /\ pc = "returned"
    /\ last.op = "with_rgb_colors"
    /\ last.pre[1].colors.name_fg = <<255, 0, 0>>
    /\ last.pre[1].colors.author_color = <<10, 155, 243>>
    /\ last.args = <<<<0, 0, 0>>, <<255, 128, 1>>, <<0, 0, 0>>, <<0, 0, 0>>>>
    /\ Texts(banner[1]) = <<<<"a", "p", "p">>, <<"1", ".", "0">>, <<"M", "e">>>>
    /\ banner[1].colors.name_fg = <<0, 0, 0>>
    /\ banner[1].colors.name_bg = <<255, 128, 1>>
    /\ banner[1].colors.version_color = <<0, 0, 0>>
    /\ banner[1].colors.author_color = <<0, 0, 0>>

=============================================================================
